---- MODULE Spec2Model ----
(***************************************************************************)
(* Behaviour-tree cursor interpreter (src/src/cursor.rs, Cursor::update).  *)
(*                                                                         *)
(* Time is counted in whole units (the code uses f64 seconds); an event    *)
(* tree is a record tagged with its variant, a cursor a record tagged with *)
(* its cursor variant.  Indices are 0-based as in the code, so the i-th    *)
(* child of a list seq is seq[i + 1].                                      *)
(*                                                                         *)
(* Every cursor carries one ghost field, done: it is TRUE once an update   *)
(* of that cursor has returned Success or Failure.  Every update returns,  *)
(* beside the code's (status, dt) and the cursor's new value, a ghost      *)
(* record of the call (trace): the event it was given, what it returned,   *)
(* and the child updates it made, in order.  A Wait cursor carries a second *)
(* ghost field, sum: the dt of the Updates it was given before it returned *)
(* Success, added up.  No ghost is read by the interpreter.                *)
(***************************************************************************)
EXTENDS Naturals, Integers, Sequences, FiniteSets, TLC

VARIABLES
    tree,       \* the event tree the host built
    cursor,     \* the root cursor spawned from tree
    status,     \* the status the last update of cursor returned (Running at first)
    leftover,   \* the dt the last update of cursor returned
    event,      \* the event of the last update
    trace,      \* ghost: the record of the last update call
    hung,       \* TRUE when the last update call never returns
    icursor,    \* the root cursor spawned from Invert(Invert(tree))
    istatus,    \* the status the last update of icursor returned
    ileftover,  \* the dt the last update of icursor returned
    ihung       \* TRUE when the last update of icursor never returns

vars == <<tree, cursor, status, leftover, event, trace, hung,
          icursor, istatus, ileftover, ihung>>

\* ---------------------------------------------------------------- bounds
MaxLen == 2     \* longest child list of a Select, Sequence, While, WhenAll
MaxWait == 2    \* longest Wait duration
MaxDt == 2      \* largest dt of an Update event

\* std::f64::MAX_VALUE, the start value of min_dt in the WhenAll arm.
MAX_VALUE == 1000000

\* ---------------------------------------------------------------- status
Running == "Running"
Success == "Success"
Failure == "Failure"

\* ---------------------------------------------------------------- input events
Keys == {"A", "B"}

Update(dt) == [type |-> "Update", dt |-> dt, key |-> "-"]
KeyPress(k) == [type |-> "KeyPress", dt |-> 0, key |-> k]
Render == [type |-> "Render", dt |-> 0, key |-> "-"]

GameEvent == {Update(dt) : dt \in 0..MaxDt} \cup {KeyPress(k) : k \in Keys} \cup {Render}

\* ---------------------------------------------------------------- event trees
KeyPressed(k) == [tag |-> "KeyPressed", key |-> k]
Action(a) == [tag |-> "Action", action |-> a]
Invert(ev) == [tag |-> "Invert", ev |-> ev]
Wait(d) == [tag |-> "Wait", d |-> d]
Select(es) == [tag |-> "Select", es |-> es]
Sequence(es) == [tag |-> "Sequence", es |-> es]
While(ev, es) == [tag |-> "While", ev |-> ev, es |-> es]
WhenAll(es) == [tag |-> "WhenAll", es |-> es]

\* ---------------------------------------------------------------- the step function
\* The host's step function f(dt, action, state): "Succeed" succeeds at once
\* and "Fail" fails at once, both leaving the whole dt; "Work" is Running on
\* its first update and then succeeds having used one unit of time.
Actions == {"Succeed", "Fail", "Work"}

start_state(a) == 0

f(dt, action, state) ==
    CASE action = "Succeed" -> [st |-> Success, dt |-> dt, state |-> state]
      [] action = "Fail" -> [st |-> Failure, dt |-> dt, state |-> state]
      [] OTHER -> IF state = 0
                  THEN [st |-> Running, dt |-> 0, state |-> 1]
                  ELSE [st |-> Success, dt |-> IF dt > 0 THEN dt - 1 ELSE 0, state |-> 1]

\* ---------------------------------------------------------------- cursors
None == [tag |-> "None"]

RECURSIVE to_cursor(_)
to_cursor(ev) ==
    CASE ev.tag = "KeyPressed" ->
           [tag |-> "KeyPressedCursor", key |-> ev.key, done |-> FALSE]
      [] ev.tag = "Action" ->
           [tag |-> "State", action |-> ev.action, state |-> start_state(ev.action),
            done |-> FALSE]
      [] ev.tag = "Invert" ->
           [tag |-> "InvertCursor", cur |-> to_cursor(ev.ev), done |-> FALSE]
      [] ev.tag = "Wait" ->
           [tag |-> "WaitCursor", wait_t |-> ev.d, t |-> 0, sum |-> 0, done |-> FALSE]
      [] ev.tag = "Select" ->
           [tag |-> "SelectCursor", seq |-> ev.es, i |-> 0,
            cursor |-> to_cursor(ev.es[1]), done |-> FALSE]
      [] ev.tag = "Sequence" ->
           [tag |-> "SequenceCursor", seq |-> ev.es, i |-> 0,
            cursor |-> to_cursor(ev.es[1]), done |-> FALSE]
      [] ev.tag = "While" ->
           [tag |-> "WhileCursor", ev_cursor |-> to_cursor(ev.ev), rep |-> ev.es,
            i |-> 0, cursor |-> to_cursor(ev.es[1]), done |-> FALSE]
      [] OTHER ->
           [tag |-> "WhenAllCursor",
            cursors |-> [k \in 1..Len(ev.es) |-> to_cursor(ev.es[k])],
            done |-> FALSE]

\* ---------------------------------------------------------------- results of update
\* What a leaf cursor holds: the target, the elapsed time and the ghost sum
\* of a WaitCursor, the action and the action state of a State cursor.
LeafState(c) ==
    CASE c.tag = "WaitCursor" ->
           [wait_t |-> c.wait_t, t |-> c.t, sum |-> c.sum, action |-> "-", state |-> 0]
      [] c.tag = "State" ->
           [wait_t |-> 0, t |-> 0, sum |-> 0, action |-> c.action, state |-> c.state]
      [] OTHER ->
           [wait_t |-> 0, t |-> 0, sum |-> 0, action |-> "-", state |-> 0]

\* The ghost record of one update call.  idx, role and fresh are set by the
\* parent that made the call; i0, i1 and len are the index before and after
\* and the length of the child list (0 where there is none); pre and post
\* are what a leaf cursor held before and after the call; calls is the
\* number of calls of the step function f the call made itself.
Node(c, e, st, dt, i0, i1, len, kids) ==
    [tag |-> c.tag, ev |-> e, st |-> st, dt |-> dt, was |-> c.done,
     idx |-> 0, role |-> "root", fresh |-> FALSE,
     i0 |-> i0, i1 |-> i1, len |-> len, kids |-> kids,
     pre |-> LeafState(c), post |-> LeafState(c), calls |-> 0]

\* The call of a parent on its child: the child's record, with its place.
Kid(r, idx, role, fresh) ==
    [r.trace EXCEPT !.idx = idx, !.role = role, !.fresh = fresh]

\* The cursor c2 an update of c with e leaves, with its ghost fields.
Ghosts(c, e, st, c2) ==
    LET d == [c2 EXCEPT !.done = c.done \/ st # Running]
    IN IF c.tag = "WaitCursor" /\ ~c.done /\ e.type = "Update"
       THEN [d EXCEPT !.sum = c.sum + e.dt]
       ELSE d

\* update returned (st, dt) and left the cursor as c2.
Return(c, e, st, dt, c2, i0, i1, len, kids) ==
    LET after == Ghosts(c, e, st, c2)
    IN [st |-> st, dt |-> dt, hung |-> FALSE,
        cur |-> after,
        trace |-> [Node(c, e, st, dt, i0, i1, len, kids) EXCEPT
                      !.post = LeafState(after)]]

\* update never returns.
Diverge(c, e, kids) ==
    [st |-> Running, dt |-> 0, hung |-> TRUE, cur |-> c,
     trace |-> Node(c, e, Running, 0, 0, 0, 0, kids)]

LeafReturn(c, e, st, dt, c2) == Return(c, e, st, dt, c2, 0, 0, 0, <<>>)

\* ---------------------------------------------------------------- update
RECURSIVE update(_, _)
RECURSIVE SelectLoop(_, _, _, _, _, _)
RECURSIVE SequenceLoop(_, _, _, _, _, _)
RECURSIVE WhileLoop(_, _, _, _, _, _, _)
RECURSIVE WhenAllLoop(_, _, _, _, _, _)

\* What a loop over a child list hands back to its arm.
LoopReturn(st, dt, i, cur, kids) ==
    [st |-> st, dt |-> dt, i |-> i, cursor |-> cur, hung |-> FALSE, kids |-> kids]

LoopDiverge(i, cur, kids) ==
    [st |-> Running, dt |-> 0, i |-> i, cursor |-> cur, hung |-> TRUE, kids |-> kids]

\* The dt an event carries: match remaining_e { Update(dt) => dt, _ => 0.0 }.
dt_of(e) == IF e.type = "Update" THEN e.dt ELSE 0

\* (&KeyPress(key_pressed), &KeyPressedCursor(key)) if key_pressed == key
KeyPressedArm(c, e) == LeafReturn(c, e, Success, 0, c)

\* StateArm giving f a copy of the state: what f does to it is lost.
StateArm_KeepsState(c, e) ==
    LET r == f(e.dt, c.action, c.state)
        ret == LeafReturn(c, e, r.st, r.dt, c)
    IN [ret EXCEPT !.trace.calls = 1]

\* (&Update(dt), &State(action, ref mut state)) => f(dt, action, state)
StateArm(c, e) ==
    LET r == f(e.dt, c.action, c.state)
        ret == LeafReturn(c, e, r.st, r.dt, [c EXCEPT !.state = r.state])
    IN [ret EXCEPT !.trace.calls = 1]

\* InvertArm with the (Failure, dt) => (Success, dt) arm lost: a failure of
\* the inner cursor stays a failure.
InvertArm_KeepsFailure(c, e) ==
    LET r == update(c.cur, e)
        kids == <<Kid(r, 0, "inner", FALSE)>>
        c2 == [c EXCEPT !.cur = r.cur]
    IN IF r.hung THEN Diverge(c, e, kids)
       ELSE CASE r.st = Running -> Return(c, e, Running, r.dt, c2, 0, 0, 1, kids)
              [] r.st = Failure -> Return(c, e, Failure, r.dt, c2, 0, 0, 1, kids)
              [] r.st = Success -> Return(c, e, Failure, r.dt, c2, 0, 0, 1, kids)

\* (_, &InvertCursor(ref mut cur))
InvertArm(c, e) ==
    LET r == update(c.cur, e)
        kids == <<Kid(r, 0, "inner", FALSE)>>
        c2 == [c EXCEPT !.cur = r.cur]
    IN IF r.hung THEN Diverge(c, e, kids)
       ELSE CASE r.st = Running -> Return(c, e, Running, r.dt, c2, 0, 0, 1, kids)
              [] r.st = Failure -> Return(c, e, Success, r.dt, c2, 0, 0, 1, kids)
              [] r.st = Success -> Return(c, e, Failure, r.dt, c2, 0, 0, 1, kids)

\* WaitArm with remaining_dt computed without taking wait_t off.
WaitArm_KeepsWaitTime(c, e) ==
    IF c.t + e.dt >= c.wait_t
    THEN LET remaining_dt == c.t + e.dt
         IN LeafReturn(c, e, Success, remaining_dt, [c EXCEPT !.t = c.wait_t])
    ELSE LeafReturn(c, e, Running, 0, [c EXCEPT !.t = c.t + e.dt])

\* WaitArm with *t = dt for *t += dt: the time waited before is forgotten.
WaitArm_ForgetsElapsed(c, e) ==
    IF c.t + e.dt >= c.wait_t
    THEN LET remaining_dt == c.t + e.dt - c.wait_t
         IN LeafReturn(c, e, Success, remaining_dt, [c EXCEPT !.t = c.wait_t])
    ELSE LeafReturn(c, e, Running, 0, [c EXCEPT !.t = e.dt])

\* WaitArm without *t = wait_t: the elapsed time is not clamped to the target.
WaitArm_NoClamp(c, e) ==
    IF c.t + e.dt >= c.wait_t
    THEN LET remaining_dt == c.t + e.dt - c.wait_t
         IN LeafReturn(c, e, Success, remaining_dt, [c EXCEPT !.t = c.t + e.dt])
    ELSE LeafReturn(c, e, Running, 0, [c EXCEPT !.t = c.t + e.dt])

\* (&Update(dt), &WaitCursor(wait_t, ref mut t))
WaitArm(c, e) ==
    IF c.t + e.dt >= c.wait_t
    THEN LET remaining_dt == c.t + e.dt - c.wait_t
         IN LeafReturn(c, e, Success, remaining_dt, [c EXCEPT !.t = c.wait_t])
    ELSE LeafReturn(c, e, Running, 0, [c EXCEPT !.t = c.t + e.dt])

\* _ => (Running, 0.0)
Fallback(c, e) == LeafReturn(c, e, Running, 0, c)

\* The while loop of the SelectCursor arm.
SelectLoop(seq, i, cur, remaining_e, e, kids) ==
    IF ~(i < Len(seq))
    THEN LoopReturn(Running, 0, i, cur, kids)
    ELSE LET r == update(cur, remaining_e)
             k == Append(kids, Kid(r, i, "child", cur = to_cursor(seq[i + 1])))
         IN IF r.hung THEN LoopDiverge(i, cur, k)
            ELSE IF r.st = Success THEN LoopReturn(Success, r.dt, i, r.cur, k)
            ELSE IF r.st = Running THEN LoopReturn(Running, 0, i, r.cur, k)
            ELSE LET next_e == IF e.type = "Update" THEN Update(r.dt) ELSE e
                     i2 == i + 1
                 IN IF i2 >= Len(seq)
                    THEN LoopReturn(Failure, dt_of(next_e), i2, r.cur, k)
                    ELSE SelectLoop(seq, i2, to_cursor(seq[i2 + 1]), next_e, e, k)

\* SelectArm returning, at the end of the list, the dt of the event it was
\* given (match *e) and not of remaining_e.
SelectArm_ReturnsGivenDt(c, e) ==
    LET l == SelectLoop(c.seq, c.i, c.cursor, e, e, <<>>)
        c2 == [c EXCEPT !.i = l.i, !.cursor = l.cursor]
    IN IF l.hung THEN Diverge(c, e, l.kids)
       ELSE Return(c, e, l.st, IF l.st = Failure THEN dt_of(e) ELSE l.dt, c2,
                   c.i, l.i, Len(c.seq), l.kids)

\* (_, &SelectCursor(seq, ref mut i, ref mut cursor))
SelectArm(c, e) ==
    LET l == SelectLoop(c.seq, c.i, c.cursor, e, e, <<>>)
        c2 == [c EXCEPT !.i = l.i, !.cursor = l.cursor]
    IN IF l.hung THEN Diverge(c, e, l.kids)
       ELSE Return(c, e, l.st, l.dt, c2, c.i, l.i, Len(c.seq), l.kids)

RECURSIVE SequenceLoop_NoCascade(_, _, _, _, _, _)
\* SequenceLoop ticking the next child with the event it was given: the
\* leftover dt of the child that succeeded is not passed on.
SequenceLoop_NoCascade(seq, i, cur, remaining_e, e, kids) ==
    IF ~(i < Len(seq))
    THEN LoopReturn(Running, 0, i, cur, kids)
    ELSE LET r == update(cur, remaining_e)
             k == Append(kids, Kid(r, i, "child", cur = to_cursor(seq[i + 1])))
         IN IF r.hung THEN LoopDiverge(i, cur, k)
            ELSE IF r.st = Failure THEN LoopReturn(Failure, r.dt, i, r.cur, k)
            ELSE IF r.st = Running THEN LoopReturn(Running, 0, i, r.cur, k)
            ELSE IF e.type # "Update"
                 THEN IF i = Len(seq) - 1
                      THEN LoopReturn(Success, r.dt, i, r.cur, k)
                      ELSE LoopReturn(Running, 0, i, r.cur, k)
            ELSE LET i2 == i + 1
                 IN IF i2 >= Len(seq)
                    THEN LoopReturn(Success, r.dt, i2, r.cur, k)
                    ELSE SequenceLoop_NoCascade(seq, i2, to_cursor(seq[i2 + 1]), e, e, k)

\* The while loop of the SequenceCursor arm.
SequenceLoop(seq, i, cur, remaining_e, e, kids) ==
    IF ~(i < Len(seq))
    THEN LoopReturn(Running, 0, i, cur, kids)
    ELSE LET r == update(cur, remaining_e)
             k == Append(kids, Kid(r, i, "child", cur = to_cursor(seq[i + 1])))
         IN IF r.hung THEN LoopDiverge(i, cur, k)
            ELSE IF r.st = Failure THEN LoopReturn(Failure, r.dt, i, r.cur, k)
            ELSE IF r.st = Running THEN LoopReturn(Running, 0, i, r.cur, k)
            ELSE IF e.type # "Update"
                 THEN IF i = Len(seq) - 1
                      THEN LoopReturn(Success, r.dt, i, r.cur, k)
                      ELSE LoopReturn(Running, 0, i, r.cur, k)
            ELSE LET next_e == Update(r.dt)
                     i2 == i + 1
                 IN IF i2 >= Len(seq)
                    THEN LoopReturn(Success, dt_of(next_e), i2, r.cur, k)
                    ELSE SequenceLoop(seq, i2, to_cursor(seq[i2 + 1]), next_e, e, k)

\* SequenceArm starting over from the first event at the end of the list, as
\* the WhileCursor arm does: if *i >= seq.len() { *i = 0; }.
SequenceArm_IndexWraps(c, e) ==
    LET l == SequenceLoop(c.seq, c.i, c.cursor, e, e, <<>>)
        i2 == IF l.i >= Len(c.seq) THEN 0 ELSE l.i
        c2 == [c EXCEPT !.i = i2, !.cursor = l.cursor]
    IN IF l.hung THEN Diverge(c, e, l.kids)
       ELSE Return(c, e, l.st, l.dt, c2, c.i, i2, Len(c.seq), l.kids)

\* (_, &SequenceCursor(seq, ref mut i, ref mut cursor))
SequenceArm(c, e) ==
    LET l == SequenceLoop(c.seq, c.i, c.cursor, e, e, <<>>)
        c2 == [c EXCEPT !.i = l.i, !.cursor = l.cursor]
    IN IF l.hung THEN Diverge(c, e, l.kids)
       ELSE Return(c, e, l.st, l.dt, c2, c.i, l.i, Len(c.seq), l.kids)

\* The loop { } of the WhileCursor arm.  Every pass after the first starts
\* with a fresh cursor for rep[i], so a pass that starts with an (i, dt) an
\* earlier pass started with repeats that pass for ever: seen holds them.
WhileLoop(rep, i, cur, remaining_e, e, kids, seen) ==
    LET r == update(cur, remaining_e)
        k == Append(kids, Kid(r, i, "body", cur = to_cursor(rep[i + 1])))
    IN IF r.hung THEN LoopDiverge(i, cur, k)
       ELSE IF r.st = Failure THEN LoopReturn(Failure, r.dt, i, r.cur, k)
       ELSE IF r.st = Running THEN LoopReturn(Running, 0, i, r.cur, k)
       ELSE IF e.type # "Update" THEN LoopReturn(Running, 0, i, r.cur, k)
       ELSE LET next_e == Update(r.dt)
                i2 == IF i + 1 >= Len(rep) THEN 0 ELSE i + 1
            IN IF <<i2, r.dt>> \in seen
               THEN LoopDiverge(i2, to_cursor(rep[i2 + 1]), k)
               ELSE WhileLoop(rep, i2, to_cursor(rep[i2 + 1]), next_e, e, k,
                              seen \cup {<<i2, r.dt>>})

\* WhileArm that returns (Running, 0) when the condition fails: x => return x
\* narrowed to (Success, dt).
WhileArm_IgnoresFailure(c, e) ==
    LET r == update(c.ev_cursor, e)
        k0 == <<Kid(r, 0, "cond", FALSE)>>
        c1 == [c EXCEPT !.ev_cursor = r.cur]
    IN IF r.hung THEN Diverge(c, e, k0)
       ELSE IF r.st = Success
            THEN Return(c, e, r.st, r.dt, c1, c.i, c.i, Len(c.rep), k0)
       ELSE IF r.st = Failure
            THEN Return(c, e, Running, 0, c1, c.i, c.i, Len(c.rep), k0)
       ELSE LET l == WhileLoop(c.rep, c.i, c.cursor, e, e, k0, {})
                c2 == [c1 EXCEPT !.i = l.i, !.cursor = l.cursor]
            IN IF l.hung THEN Diverge(c, e, l.kids)
               ELSE Return(c, e, l.st, l.dt, c2, c.i, l.i, Len(c.rep), l.kids)

\* (_, &WhileCursor(ref mut ev_cursor, rep, ref mut i, ref mut cursor))
WhileArm(c, e) ==
    LET r == update(c.ev_cursor, e)
        k0 == <<Kid(r, 0, "cond", FALSE)>>
        c1 == [c EXCEPT !.ev_cursor = r.cur]
    IN IF r.hung THEN Diverge(c, e, k0)
       ELSE IF r.st # Running
            THEN Return(c, e, r.st, r.dt, c1, c.i, c.i, Len(c.rep), k0)
       ELSE LET l == WhileLoop(c.rep, c.i, c.cursor, e, e, k0, {})
                c2 == [c1 EXCEPT !.i = l.i, !.cursor = l.cursor]
            IN IF l.hung THEN Diverge(c, e, l.kids)
               ELSE Return(c, e, l.st, l.dt, c2, c.i, l.i, Len(c.rep), l.kids)

RECURSIVE WhenAllLoop_PassesLeftover(_, _, _, _, _, _)
\* WhenAllLoop handing the dt a child leaves on Success to the slots after
\* it, as Sequence does.
WhenAllLoop_PassesLeftover(cursors, k, e, min_dt, terminated, kids) ==
    IF k > Len(cursors)
    THEN [ret |-> FALSE, st |-> Running, dt |-> 0, cursors |-> cursors,
          min_dt |-> min_dt, terminated |-> terminated, hung |-> FALSE, kids |-> kids]
    ELSE IF cursors[k].tag = "None"
    THEN WhenAllLoop_PassesLeftover(cursors, k + 1, e, min_dt, terminated + 1, kids)
    ELSE LET r == update(cursors[k], e)
             ks == Append(kids, Kid(r, k - 1, "slot", FALSE))
             cs == [cursors EXCEPT ![k] = r.cur]
         IN IF r.hung
            THEN [ret |-> TRUE, st |-> Running, dt |-> 0, cursors |-> cursors,
                  min_dt |-> min_dt, terminated |-> terminated, hung |-> TRUE,
                  kids |-> ks]
            ELSE IF r.st = Running
            THEN WhenAllLoop_PassesLeftover(cs, k + 1, e, min_dt, terminated, ks)
            ELSE IF r.st = Failure
            THEN [ret |-> TRUE, st |-> Failure, dt |-> r.dt, cursors |-> cs,
                  min_dt |-> min_dt, terminated |-> terminated, hung |-> FALSE,
                  kids |-> ks]
            ELSE WhenAllLoop_PassesLeftover(
                     cs, k + 1, IF e.type = "Update" THEN Update(r.dt) ELSE e,
                     IF r.dt < min_dt THEN r.dt ELSE min_dt, terminated + 1, ks)

\* for cur in cursors.mut_iter() { ... } of the WhenAllCursor arm, from slot k.
\* ret is TRUE when the loop body returned (a child failed).
WhenAllLoop(cursors, k, e, min_dt, terminated, kids) ==
    IF k > Len(cursors)
    THEN [ret |-> FALSE, st |-> Running, dt |-> 0, cursors |-> cursors,
          min_dt |-> min_dt, terminated |-> terminated, hung |-> FALSE, kids |-> kids]
    ELSE IF cursors[k].tag = "None"
    THEN WhenAllLoop(cursors, k + 1, e, min_dt, terminated + 1, kids)
    ELSE LET r == update(cursors[k], e)
             ks == Append(kids, Kid(r, k - 1, "slot", FALSE))
             cs == [cursors EXCEPT ![k] = r.cur]
         IN IF r.hung
            THEN [ret |-> TRUE, st |-> Running, dt |-> 0, cursors |-> cursors,
                  min_dt |-> min_dt, terminated |-> terminated, hung |-> TRUE,
                  kids |-> ks]
            ELSE IF r.st = Running
            THEN WhenAllLoop(cs, k + 1, e, min_dt, terminated, ks)
            ELSE IF r.st = Failure
            THEN [ret |-> TRUE, st |-> Failure, dt |-> r.dt, cursors |-> cs,
                  min_dt |-> min_dt, terminated |-> terminated, hung |-> FALSE,
                  kids |-> ks]
            ELSE WhenAllLoop(cs, k + 1, e, IF r.dt < min_dt THEN r.dt ELSE min_dt,
                             terminated + 1, ks)

\* WhenAllArm returning, when a child fails, the least dt left over so far
\* and not the dt of the child that failed.
WhenAllArm_FailureReturnsMin(c, e) ==
    LET l == WhenAllLoop(c.cursors, 1, e, MAX_VALUE, 0, <<>>)
        c2 == [c EXCEPT !.cursors = l.cursors]
        n == Len(c.cursors)
    IN IF l.hung THEN Diverge(c, e, l.kids)
       ELSE IF l.ret
            THEN Return(c, e, l.st, IF l.min_dt < l.dt THEN l.min_dt ELSE l.dt, c2,
                        n, Len(l.cursors), n, l.kids)
       ELSE IF l.terminated = 0 /\ n = 0
            THEN Return(c, e, Success, dt_of(e), c2, n, Len(l.cursors), n, l.kids)
       ELSE IF n = l.terminated
            THEN Return(c, e, Success, l.min_dt, c2, n, Len(l.cursors), n, l.kids)
       ELSE Return(c, e, Running, 0, c2, n, Len(l.cursors), n, l.kids)

\* WhenAllArm without the arm for no events at all: an empty WhenAll falls
\* to "all events terminated" and returns min_dt as it was initialised.
WhenAllArm_NoEmptyArm(c, e) ==
    LET l == WhenAllLoop(c.cursors, 1, e, MAX_VALUE, 0, <<>>)
        c2 == [c EXCEPT !.cursors = l.cursors]
        n == Len(c.cursors)
    IN IF l.hung THEN Diverge(c, e, l.kids)
       ELSE IF l.ret THEN Return(c, e, l.st, l.dt, c2, n, Len(l.cursors), n, l.kids)
       ELSE IF n = l.terminated
            THEN Return(c, e, Success, l.min_dt, c2, n, Len(l.cursors), n, l.kids)
       ELSE Return(c, e, Running, 0, c2, n, Len(l.cursors), n, l.kids)

\* (_, &WhenAllCursor(ref mut cursors))
WhenAllArm(c, e) ==
    LET l == WhenAllLoop(c.cursors, 1, e, MAX_VALUE, 0, <<>>)
        c2 == [c EXCEPT !.cursors = l.cursors]
        n == Len(c.cursors)
    IN IF l.hung THEN Diverge(c, e, l.kids)
       ELSE IF l.ret THEN Return(c, e, l.st, l.dt, c2, n, Len(l.cursors), n, l.kids)
       ELSE IF l.terminated = 0 /\ n = 0
            THEN Return(c, e, Success, dt_of(e), c2, n, Len(l.cursors), n, l.kids)
       ELSE IF n = l.terminated
            THEN Return(c, e, Success, l.min_dt, c2, n, Len(l.cursors), n, l.kids)
       ELSE Return(c, e, Running, 0, c2, n, Len(l.cursors), n, l.kids)

\* match (e, self) { ... }
update(c, e) ==
    CASE c.tag = "KeyPressedCursor" /\ e.type = "KeyPress" /\ e.key = c.key ->
           KeyPressedArm(c, e)
      [] c.tag = "State" /\ e.type = "Update" -> StateArm(c, e)
      [] c.tag = "InvertCursor" -> InvertArm(c, e)
      [] c.tag = "WaitCursor" /\ e.type = "Update" -> WaitArm(c, e)
      [] c.tag = "SelectCursor" -> SelectArm(c, e)
      [] c.tag = "SequenceCursor" -> SequenceArm(c, e)
      [] c.tag = "WhileCursor" -> WhileArm(c, e)
      [] c.tag = "WhenAllCursor" -> WhenAllArm(c, e)
      [] OTHER -> Fallback(c, e)

\* ---------------------------------------------------------------- the event trees checked
RECURSIVE ListsOf(_, _)
\* The lists of exactly n elements of S.
ListsOf(S, n) ==
    IF n = 0 THEN {<<>>}
    ELSE {Append(l, x) : l \in ListsOf(S, n - 1), x \in S}

\* The non-empty lists of at most MaxLen elements of S.
Lists(S) == UNION {ListsOf(S, n) : n \in 1..MaxLen}

Leaves ==
    {KeyPressed(k) : k \in Keys} \cup {Wait(d) : d \in 0..MaxWait}
        \cup {Action(a) : a \in Actions}

\* One combinator over leaves.
Flat ==
    {Invert(l) : l \in Leaves}
        \cup {Select(es) : es \in Lists(Leaves)}
        \cup {Sequence(es) : es \in Lists(Leaves)}
        \cup {WhenAll(es) : es \in Lists(Leaves) \cup {<<>>}}
        \cup {While(ev, es) : ev \in Leaves, es \in Lists(Leaves)}

\* The leaves nested combinators are built over: one that succeeds on a
\* key press, one that takes time, one that fails.
Small == {KeyPressed("A"), Wait(1), Action("Fail")}

Inner ==
    {Invert(l) : l \in Small}
        \cup {Select(es) : es \in Lists(Small)}
        \cup {Sequence(es) : es \in Lists(Small)}
        \cup {WhenAll(es) : es \in Lists(Small) \cup {<<>>}}
        \cup {While(ev, es) : ev \in Small, es \in Lists(Small)}

\* The child lists that hold a combinator.
NestedLists ==
    {<<x>> : x \in Inner}
        \cup {<<x, l>> : x \in Inner, l \in Small}
        \cup {<<l, x>> : x \in Inner, l \in Small}

\* One combinator over a combinator.
Nested ==
    {Invert(x) : x \in Inner}
        \cup {Invert(Invert(l)) : l \in Leaves}
        \cup {Select(es) : es \in NestedLists}
        \cup {Sequence(es) : es \in NestedLists}
        \cup {WhenAll(es) : es \in NestedLists}
        \cup {While(x, <<l>>) : x \in Inner, l \in Small}
        \cup {While(l, <<x>>) : x \in Inner, l \in Small}

Trees == Leaves \cup Flat \cup Nested

\* ---------------------------------------------------------------- the host
NoEvent == [type |-> "None", dt |-> 0, key |-> "-"]

NoCall ==
    [tag |-> "None", ev |-> NoEvent, st |-> Running, dt |-> 0, was |-> FALSE,
     idx |-> 0, role |-> "root", fresh |-> FALSE,
     i0 |-> 0, i1 |-> 0, len |-> 0, kids |-> <<>>,
     pre |-> LeafState(None), post |-> LeafState(None), calls |-> 0]

Init ==
    /\ tree \in Trees
    /\ cursor = to_cursor(tree)
    /\ status = Running
    /\ leftover = 0
    /\ event = NoEvent
    /\ trace = NoCall
    /\ hung = FALSE
    /\ icursor = to_cursor(Invert(Invert(tree)))
    /\ istatus = Running
    /\ ileftover = 0
    /\ ihung = FALSE

\* The host ticks the root cursor with e.  It does so only while the cursor
\* has not returned a terminal status; a call that does not return leaves
\* the host inside it.  r is the one result of the one call of the tick.
TickCursor(e) ==
    /\ status = Running
    /\ ~hung
    /\ \E r \in {update(cursor, e)} :
          /\ event' = e
          /\ trace' = r.trace
          /\ hung' = r.hung
          /\ IF r.hung
             THEN UNCHANGED <<cursor, status, leftover>>
             ELSE /\ cursor' = r.cur
                  /\ status' = r.st
                  /\ leftover' = r.dt
    /\ UNCHANGED tree

\* The same tick on the cursor of Invert(Invert(tree)).
TickInverted(e) ==
    \E r \in {update(icursor, e)} :
       /\ ihung' = r.hung
       /\ IF r.hung
          THEN UNCHANGED <<icursor, istatus, ileftover>>
          ELSE /\ icursor' = r.cur
               /\ istatus' = r.st
               /\ ileftover' = r.dt

Tick(e) == TickCursor(e) /\ UNCHANGED <<icursor, istatus, ileftover, ihung>>

TickBoth(e) == TickCursor(e) /\ TickInverted(e)

Next == \E e \in GameEvent : Tick(e)

Spec == Init /\ [][Next]_vars

NextInvert == \E e \in GameEvent : TickBoth(e)

SpecInvert == Init /\ [][NextInvert]_vars

\* ---------------------------------------------------------------- properties
RECURSIVE Nodes(_)
\* The record of a call and of every call made within it.
Nodes(n) == {n} \cup UNION {Nodes(n.kids[k]) : k \in 1..Len(n.kids)}

\* The update calls of the last tick, when it returned.
Calls == IF hung THEN {} ELSE Nodes(trace)

\* The calls on a cursor of the given variant that had not returned a
\* terminal status before.
LiveCalls(tag) == {n \in Calls : n.tag = tag /\ ~n.was}

Terminal(st) == st \in {Success, Failure}

\* C1: time conservation.  Every update call with Update(dt), of the root
\* cursor and of every cursor below it, that returns Success or Failure
\* returns a leftover dt in [0, dt].
C1_TimeConservation ==
    \A n \in Calls :
        (n.ev.type = "Update" /\ Terminal(n.st)) => (0 <= n.dt /\ n.dt <= n.ev.dt)

\* A combinator that succeeds on Update(dt) having used part of dt.
C1_Witness ==
    /\ tree.tag \in {"Select", "Sequence", "While", "WhenAll"}
    /\ event.type = "Update"
    /\ status = Success
    /\ 0 < leftover
    /\ leftover < event.dt

\* C2: every call to update returns.
C2_UpdateReturns == ~hung

\* C3: a Sequence succeeds when all its children succeed.  On every tick of
\* a Sequence, a current child that reports Success either is the last
\* child, and then the Sequence returns Success with that child's leftover,
\* or is followed by the next child: the Sequence has moved on to it when
\* the tick ends, so that the last child is reached once every child before
\* it has succeeded.
C3_SequenceSucceeds ==
    \A n \in LiveCalls("SequenceCursor") :
        \A k \in 1..Len(n.kids) :
            n.kids[k].st = Success =>
                IF n.kids[k].idx = n.len - 1
                THEN n.st = Success /\ n.dt = n.kids[k].dt
                ELSE n.i1 > n.kids[k].idx

\* C4: Select.  The children ticked on one tick are consecutive, from the
\* current one on.  A child that returns Success ends the tick: the Select
\* returns Success with its leftover and stays at that child.  The last
\* child returning Failure makes the Select return Failure with its
\* leftover, and the Select returns Failure in no other case.
C4_Select ==
    \A n \in LiveCalls("SelectCursor") :
        /\ \A k \in 1..Len(n.kids) :
              /\ n.kids[k].idx = n.i0 + k - 1
              /\ n.kids[k].st = Success =>
                    /\ k = Len(n.kids)
                    /\ n.st = Success /\ n.dt = n.kids[k].dt
                    /\ n.i1 = n.kids[k].idx
              /\ (n.kids[k].st = Failure /\ n.kids[k].idx = n.len - 1) =>
                    /\ k = Len(n.kids)
                    /\ n.st = Failure /\ n.dt = n.kids[k].dt
              /\ k < Len(n.kids) => n.kids[k].st = Failure
        /\ n.st = Failure =>
              /\ Len(n.kids) > 0
              /\ n.kids[Len(n.kids)].st = Failure
              /\ n.kids[Len(n.kids)].idx = n.len - 1

\* A Select whose children all fail on one Update, the last with time left.
C4_Witness ==
    /\ tree.tag = "Select"
    /\ status = Failure
    /\ Len(trace.kids) >= 2
    /\ event.type = "Update"
    /\ 0 < leftover
    /\ leftover < event.dt

\* C5: a WhenAll in which no child fails returns Success on the tick on
\* which every child has returned Success, on this tick or on an earlier
\* one.
C5_WhenAllSucceeds ==
    \A n \in LiveCalls("WhenAllCursor") :
        (/\ n.len > 0
         /\ \A k \in 1..Len(n.kids) : n.kids[k].st = Success \/ n.kids[k].was)
            => n.st = Success

\* A WhenAll that returns Success on a tick on which one child succeeds and
\* the other has succeeded before is what C5 is about; the code never returns
\* it, so C5 has no witness.

\* C6: a Select, Sequence or While cursor never ticks a child cursor that
\* has returned Success or Failure before.
C6_NoTickAfterTerminal ==
    \A n \in LiveCalls("SelectCursor") \cup LiveCalls("SequenceCursor")
                \cup LiveCalls("WhileCursor") :
        \A k \in 1..Len(n.kids) :
            n.kids[k].role \in {"child", "body"} => ~n.kids[k].was

\* C7: the slot vector of a WhenAll keeps its length, a slot whose child has
\* returned Success is empty while the WhenAll is Running, and no child
\* that has returned Success is ticked again.
C7_WhenAllSlots ==
    /\ \A n \in LiveCalls("WhenAllCursor") :
          /\ n.i1 = n.i0
          /\ \A k \in 1..Len(n.kids) : ~n.kids[k].was
    /\ (cursor.tag = "WhenAllCursor" /\ status = Running) =>
          /\ Len(cursor.cursors) = Len(tree.es)
          /\ \A k \in 1..Len(cursor.cursors) :
                cursor.cursors[k].tag # "None" => ~cursor.cursors[k].done

\* C8: on a tick with an event that is not an Update, a Sequence and a
\* Select each tick exactly one child.
C8_InputDoesNotCascade ==
    \A n \in LiveCalls("SelectCursor") \cup LiveCalls("SequenceCursor") :
        n.ev.type # "Update" => Len(n.kids) = 1

RECURSIVE SumOfWaits(_)
\* The durations of a list of Wait events, added up.
SumOfWaits(es) == IF es = <<>> THEN 0 ELSE es[1].d + SumOfWaits(Tail(es))

\* C9: on Update(dt) the first child ticked gets Update(dt); when a child
\* of a Select fails (of a Sequence succeeds) with leftover d' and is not
\* the last child, the next child is spawned fresh and ticked in the same
\* call with Update(d').  So a fresh Sequence of Waits ticked with an
\* Update(dt) that covers their sum returns Success and what is left of dt.
C9_UpdateCascades ==
    /\ \A n \in LiveCalls("SelectCursor") \cup LiveCalls("SequenceCursor") :
          n.ev.type = "Update" =>
             LET moves == IF n.tag = "SelectCursor" THEN Failure ELSE Success
             IN /\ Len(n.kids) > 0 => n.kids[1].ev = n.ev
                /\ \A k \in 1..Len(n.kids) :
                      (n.kids[k].st = moves /\ n.kids[k].idx < n.len - 1) =>
                         /\ k < Len(n.kids)
                         /\ n.kids[k + 1].idx = n.kids[k].idx + 1
                         /\ n.kids[k + 1].fresh
                         /\ n.kids[k + 1].ev = Update(n.kids[k].dt)
    /\ (/\ ~hung
        /\ tree.tag = "Sequence"
        /\ \A k \in 1..Len(tree.es) : tree.es[k].tag = "Wait"
        /\ event.type = "Update"
        /\ trace.i0 = 0
        /\ trace.kids[1].fresh
        /\ event.dt >= SumOfWaits(tree.es)) =>
          /\ status = Success
          /\ leftover = event.dt - SumOfWaits(tree.es)

\* A Sequence whose first child succeeds on Update(2) leaving 1, and whose
\* second child is ticked with Update(1) in the same call.
C9_Witness ==
    /\ tree.tag = "Sequence"
    /\ event = Update(2)
    /\ Len(trace.kids) = 2
    /\ trace.kids[2].ev = Update(1)
    /\ status = Success

\* C10: the cursor of Invert(Invert(tree)) returns on every tick what the
\* cursor of tree returns, and every Invert cursor returns its inner
\* cursor's leftover, Running for Running, Failure for Success and Success
\* for Failure.
C10_InvertInvolution ==
    /\ istatus = status
    /\ ileftover = leftover
    /\ ihung = hung
    /\ \A n \in Calls :
          n.tag = "InvertCursor" =>
             /\ n.dt = n.kids[1].dt
             /\ n.kids[1].st = Running => n.st = Running
             /\ n.kids[1].st = Success => n.st = Failure
             /\ n.kids[1].st = Failure => n.st = Success

\* A Sequence and its double inversion have both returned Failure with the
\* same time left.
C10_Witness ==
    /\ tree.tag = "Sequence"
    /\ status = Failure
    /\ istatus = Failure
    /\ leftover > 0
    /\ ileftover = leftover

\* C11: WhenAll fails fast.  On a tick on which a child of a WhenAll
\* returns Failure, the WhenAll returns Failure with that child's leftover,
\* and no child of a lower index has returned Failure on that tick,
\* whatever the children before it returned.
C11_WhenAllFailFast ==
    \A n \in LiveCalls("WhenAllCursor") :
        \A k \in 1..Len(n.kids) :
            n.kids[k].st = Failure =>
                /\ n.st = Failure
                /\ n.dt = n.kids[k].dt
                /\ \A j \in 1..(k - 1) : n.kids[j].st # Failure

\* A WhenAll whose first child succeeds leaving less than the second child,
\* which fails on the same tick, leaves.
C11_Witness ==
    /\ tree.tag = "WhenAll"
    /\ status = Failure
    /\ Len(trace.kids) = 2
    /\ trace.kids[1].st = Success
    /\ trace.kids[2].st = Failure
    /\ trace.kids[1].dt < trace.kids[2].dt
    /\ leftover = trace.kids[2].dt

\* C12: a WhenAll of no events returns (Success, dt) on Update(dt) and
\* (Success, 0) on every other event.
C12_WhenAllVacuity ==
    /\ \A n \in Calls :
          (n.tag = "WhenAllCursor" /\ n.len = 0) =>
             /\ n.st = Success
             /\ n.dt = IF n.ev.type = "Update" THEN n.ev.dt ELSE 0
    /\ (tree = WhenAll(<<>>) /\ event # NoEvent) =>
          /\ ~hung
          /\ status = Success
          /\ leftover = IF event.type = "Update" THEN event.dt ELSE 0

\* The empty WhenAll has been ticked with an Update that carries time.
C12_Witness ==
    /\ tree = WhenAll(<<>>)
    /\ event.type = "Update"
    /\ event.dt > 0
    /\ status = Success
    /\ leftover = event.dt

\* C13: Wait accumulates time across ticks.  For every Wait cursor that has
\* not returned Success before, with target d, and the sum s of the dt of
\* all the Updates it has been given, this one included: an update with an
\* Update returns (Running, 0) while s < d and (Success, s - d) when
\* s >= d; an update with any other event returns (Running, 0) and leaves
\* the elapsed time as it was.
C13_WaitAccumulates ==
    \A n \in LiveCalls("WaitCursor") :
        IF n.ev.type = "Update"
        THEN /\ n.post.sum = n.pre.sum + n.ev.dt
             /\ IF n.post.sum >= n.pre.wait_t
                THEN n.st = Success /\ n.dt = n.post.sum - n.pre.wait_t
                ELSE n.st = Running /\ n.dt = 0
        ELSE /\ n.st = Running /\ n.dt = 0
             /\ n.post.t = n.pre.t
             /\ n.post.sum = n.pre.sum

\* A Wait that succeeds on a later Update than its first, on time waited
\* before and part of that Update's dt.
C13_Witness ==
    /\ tree.tag = "Wait"
    /\ status = Success
    /\ event.type = "Update"
    /\ trace.pre.sum > 0
    /\ 0 < leftover
    /\ leftover < event.dt

\* C14: leaf propagation.  A State cursor ticked with Update(dt) calls f
\* once, with dt, its action and its state, returns the status and the dt
\* f returns and keeps the state f leaves; ticked with any other event it
\* returns (Running, 0), does not call f and keeps its state.
C14_LeafPropagation ==
    \A n \in Calls :
        n.tag = "State" =>
           IF n.ev.type = "Update"
           THEN LET r == f(n.ev.dt, n.pre.action, n.pre.state)
                IN /\ n.calls = 1
                   /\ n.st = r.st
                   /\ n.dt = r.dt
                   /\ n.post.state = r.state
           ELSE /\ n.st = Running /\ n.dt = 0
                /\ n.calls = 0
                /\ n.post.state = n.pre.state

\* The action that works has been stepped before and now succeeds, leaving
\* part of the Update's dt.
C14_Witness ==
    /\ tree = Action("Work")
    /\ event.type = "Update"
    /\ trace.calls = 1
    /\ trace.pre.state = 1
    /\ status = Success
    /\ 0 < leftover
    /\ leftover < event.dt

\* C15: every update with an event that is not an Update returns a leftover
\* dt of 0, whatever the cursor and whatever the status.
C15_InputLeavesNoTime ==
    \A n \in Calls : n.ev.type # "Update" => n.dt = 0

\* A combinator that returns Success on a key press.
C15_Witness ==
    /\ tree.tag \in {"Select", "Sequence", "WhenAll", "Invert"}
    /\ event.type = "KeyPress"
    /\ status = Success
    /\ leftover = 0

\* C16: While exits on its condition.  On a tick on which the condition
\* cursor of a While returns Success or Failure, the While returns that
\* status and that leftover, no body child is ticked and the body index
\* stays as it was.
C16_WhileExitsOnCondition ==
    \A n \in LiveCalls("WhileCursor") :
        /\ Len(n.kids) >= 1
        /\ n.kids[1].role = "cond"
        /\ n.kids[1].ev = n.ev
        /\ Terminal(n.kids[1].st) =>
              /\ n.st = n.kids[1].st
              /\ n.dt = n.kids[1].dt
              /\ Len(n.kids) = 1
              /\ n.i1 = n.i0

\* A While past its first body child whose condition succeeds with time
\* left.
C16_Witness ==
    /\ tree.tag = "While"
    /\ status = Success
    /\ leftover > 0
    /\ Len(trace.kids) = 1
    /\ trace.i0 > 0
    /\ cursor.i = trace.i0

\* The body of a While, run as a cyclic sequence while the condition is
\* Running: a body child's Success on an Update is followed, in the same
\* call, by a fresh cursor for the next child, the first one after the
\* last; a Failure ends the tick with (Failure, leftover); a Running ends
\* it with (Running, 0); the body index stays in [0, len).
WhileBodyIsCyclic ==
    \A n \in LiveCalls("WhileCursor") :
        /\ 0 <= n.i1 /\ n.i1 < n.len
        /\ \A k \in 2..Len(n.kids) :
              /\ 0 <= n.kids[k].idx /\ n.kids[k].idx < n.len
              /\ n.kids[k].st = Failure =>
                    k = Len(n.kids) /\ n.st = Failure /\ n.dt = n.kids[k].dt
              /\ n.kids[k].st = Running =>
                    k = Len(n.kids) /\ n.st = Running /\ n.dt = 0
              /\ (n.kids[k].st = Success /\ n.ev.type = "Update") =>
                    /\ k < Len(n.kids)
                    /\ n.kids[k + 1].idx = (n.kids[k].idx + 1) % n.len
                    /\ n.kids[k + 1].fresh

\* While(Wait(T), body), with a body of leaves that do not fail, ticked
\* with an Update: the call returns, Running while the dt given so far is
\* below T and (Success, what is over) when it has reached T.
WhileRunsUntilWaitEnds ==
    (/\ tree.tag = "While"
     /\ tree.ev.tag = "Wait"
     /\ \A k \in 1..Len(tree.es) : tree.es[k] \in Leaves \ {Action("Fail")}
     /\ event.type = "Update") =>
        /\ ~hung
        /\ IF cursor.ev_cursor.sum >= tree.ev.d
           THEN status = Success /\ leftover = cursor.ev_cursor.sum - tree.ev.d
           ELSE status = Running

\* C17: While runs its body as a cyclic sequence while its condition is
\* Running, and While(Wait(T), body) returns Running on every Update until
\* the accumulated dt reaches T and then (Success, leftover).
C17_WhileCyclicBody == WhileBodyIsCyclic /\ WhileRunsUntilWaitEnds

\* The least dt the calls of a non-empty list returned.
MinDt(kids) ==
    CHOOSE m \in {kids[k].dt : k \in 1..Len(kids)} :
        \A k \in 1..Len(kids) : m <= kids[k].dt

RECURSIVE MaxOfWaits(_)
\* The longest duration of a list of Wait events.
MaxOfWaits(es) ==
    IF es = <<>> THEN 0
    ELSE LET m == MaxOfWaits(Tail(es))
         IN IF es[1].d > m THEN es[1].d ELSE m

\* On Update(dt) the children ticked get the Update(dt) the WhenAll was
\* given, and when every child succeeds on the tick the WhenAll returns
\* Success with the least leftover; a WhenAll of Waits that have not waited
\* yet, ticked with an Update(dt) that covers the longest, returns Success
\* and dt less the longest.
WhenAllSharesTheUpdate ==
    /\ \A n \in LiveCalls("WhenAllCursor") :
          n.ev.type = "Update" =>
             /\ \A k \in 1..Len(n.kids) :
                   n.kids[k].ev = n.ev /\ n.kids[k].idx = k - 1
             /\ (/\ n.len > 0
                 /\ Len(n.kids) = n.len
                 /\ \A k \in 1..Len(n.kids) : n.kids[k].st = Success) =>
                   n.st = Success /\ n.dt = MinDt(n.kids)
    /\ (/\ ~hung
        /\ tree.tag = "WhenAll"
        /\ tree.es # <<>>
        /\ \A k \in 1..Len(tree.es) : tree.es[k].tag = "Wait"
        /\ event.type = "Update"
        /\ \A k \in 1..Len(trace.kids) : trace.kids[k].pre.t = 0
        /\ event.dt >= MaxOfWaits(tree.es)) =>
          /\ status = Success
          /\ leftover = event.dt - MaxOfWaits(tree.es)

C19_WaitElapsed ==
    \A n \in Calls :
        n.tag = "WaitCursor" =>
           /\ 0 <= n.pre.t /\ n.pre.t <= n.pre.wait_t
           /\ 0 <= n.post.t /\ n.post.t <= n.pre.wait_t
           /\ n.pre.t <= n.post.t
           /\ n.st = Success => n.post.t = n.pre.wait_t
           /\ n.was => (n.pre.t = n.pre.wait_t /\ n.post.t = n.pre.wait_t)

\* A Wait that has waited and is given more time than it still needs: its
\* elapsed time stops at the target.
C19_Witness ==
    /\ tree.tag = "Wait"
    /\ status = Success
    /\ 0 < trace.pre.t
    /\ trace.pre.t + event.dt > trace.pre.wait_t
    /\ trace.post.t = trace.pre.wait_t
    /\ cursor.t = tree.d

\* C20: index safety of Select and Sequence.  In every update the index
\* does not decrease and does not pass the length of the list; every child
\* ticked, and so every cursor spawned, is one of an index below the
\* length; a cursor that has not returned a terminal status starts the
\* tick with its index below the length, and the index is the length after
\* a tick only if the tick returns Failure (Select) or Success (Sequence).
C20_IndexSafety ==
    /\ \A n \in Calls :
          n.tag \in {"SelectCursor", "SequenceCursor"} =>
             /\ n.i0 <= n.i1
             /\ n.i1 <= n.len
             /\ \A k \in 1..Len(n.kids) :
                   /\ 0 <= n.kids[k].idx /\ n.kids[k].idx < n.len
                   /\ k > 1 => n.kids[k].fresh
             /\ ~n.was =>
                   /\ n.i0 < n.len
                   /\ n.i1 = n.len =>
                         n.st = IF n.tag = "SelectCursor" THEN Failure ELSE Success
    /\ (status = Running /\ cursor.tag \in {"SelectCursor", "SequenceCursor"}) =>
          cursor.i < Len(cursor.seq)

\* A Sequence that moved to its second child on an earlier tick and now
\* ends: the index reaches the length on the tick that returns Success.
C20_Witness ==
    /\ tree.tag = "Sequence"
    /\ status = Success
    /\ trace.i0 = 1
    /\ trace.i1 = 2
    /\ trace.len = 2
    /\ cursor.i = Len(cursor.seq)

====
